---- MODULE Spec2Model ----
(***************************************************************************)
(* A state-machine model of vcpkg_caching.py: the provisioning script that *)
(* validates the environment, makes sure the vcpkg tool is there, registers*)
(* the NuGet feeds with the NuGet client and prints the shell statements   *)
(* that export the binary-cache configuration.                             *)
(*                                                                         *)
(* The script is sequential.  Its position is pc; one action models each   *)
(* stretch of main() between two external effects (a process invocation,   *)
(* a look at the file system or the search path, the termination).         *)
(* The environment, the platform, the file system and the search path are  *)
(* inputs, chosen in Init; the exit status and the output of each external *)
(* process are chosen when the process is run.                             *)
(*                                                                         *)
(* stdout and stderr record what the script itself prints.  The output of  *)
(* the external processes (redirected to stderr by the script) is not      *)
(* recorded.                                                               *)
(***************************************************************************)
EXTENDS Integers, Sequences, FiniteSets, TLC

VARIABLES
    environ,            \* os.environ: a function from the names that are set to their values
    platform,           \* sys.platform
    mono_on_path,       \* whether shutil.which("mono") finds something
    exe_exists,         \* whether <root>/vcpkg[.exe] exists
    bootstrap_exists,   \* whether <root>/bootstrap-vcpkg.{sh,bat} exists
    pc,                 \* the position of main()
    export_env,         \* main's export_env, an insertion-ordered dict: a sequence of <<var, val>>
    vcpkg_root,         \* main's vcpkg_root (the string of the Path)
    nuget,              \* main's nuget, the command prefix of the NuGet client
    nuget_user,
    nuget_token,
    primary_token,
    primary_owner,
    stdout,             \* the lines printed to standard output
    stderr,             \* the messages the script prints to standard error
    exit_code,          \* the exit status of the process, meaningful once pc = "exit"
    raised,             \* what ended the process: "" (nothing yet, or normal end), "SystemExit", or an exception
    calls,              \* the external processes run so far: [site, argv, cwd, rc]
    steps               \* history: the positions main() has executed, in order

vars == <<environ, platform, mono_on_path, exe_exists, bootstrap_exists, pc,
          export_env, vcpkg_root, nuget, nuget_user, nuget_token,
          primary_token, primary_owner, stdout, stderr, exit_code, raised, calls,
          steps>>

inputs == <<environ, platform, mono_on_path, bootstrap_exists>>
locals == <<export_env, vcpkg_root, nuget, nuget_user, nuget_token,
            primary_token, primary_owner>>
outputs == <<stdout, stderr, exit_code, raised>>

(***************************************************************************)
(* Bounds of the model.                                                    *)
(***************************************************************************)
MaxReturnCode == 1      \* external processes exit with 0..MaxReturnCode
MaxFetchLines == 2      \* 'vcpkg fetch nuget' prints 0..MaxFetchLines lines

(***************************************************************************)
(* The inputs.                                                             *)
(***************************************************************************)
\* Python's None: the value of environ.get(k) for a name that is not set,
\* and of a local that is not assigned yet.  No environment value equals it.
None == "<None>"

EnvNames == {"VCPKG_ROOT", "VCPKG_INSTALLATION_ROOT", "CI", "VCPKG_NUGET_USER",
             "VCPKG_NUGET_TOKEN", "VCPKG_PRIMARY_NUGET_TOKEN",
             "VCPKG_PRIMARY_NUGET_OWNER"}

\* The values each name may hold when it is set.  The empty string is a
\* value a set variable can hold.
EnvValues(k) ==
    CASE k = "VCPKG_ROOT"                -> {"", "/opt/vcpkg"}
      [] k = "VCPKG_INSTALLATION_ROOT"   -> {"", "/usr/local/share/vcpkg/"}
      [] k = "CI"                        -> {"", "true"}
      [] k = "VCPKG_NUGET_USER"          -> {"", "alice"}
      [] k = "VCPKG_NUGET_TOKEN"         -> {"", "ghp_rw"}
      [] k = "VCPKG_PRIMARY_NUGET_TOKEN" -> {"", "ghp_ro"}
      [] k = "VCPKG_PRIMARY_NUGET_OWNER" -> {"", "alice", "bob", "GitHub"}

\* A set variable holds one of its values; None stands for "not set".
EnvChoices(k) == EnvValues(k) \cup {None}

\* The dict of the names that are set, from a choice for every name.
MkEnviron(choice) == [k \in {n \in EnvNames : choice[n] # None} |-> choice[k]]

Platforms == {"win32", "linux"}

ReturnCodes == 0..MaxReturnCode

\* What 'vcpkg fetch nuget' may print: progress lines and the path of the client.
FetchLineValues == {"Downloading nuget...", "/opt/vcpkg/downloads/tools/nuget.exe"}

FetchOutputs == UNION {[1..n -> FetchLineValues] : n \in 0..MaxFetchLines}

(***************************************************************************)
(* Python values and library functions the script uses.                    *)
(***************************************************************************)
\* "k in environ"
InEnviron(k) == k \in DOMAIN environ

\* environ.get(k, default)
EnvironGet(k, default) == IF k \in DOMAIN environ THEN environ[k] ELSE default

\* The truth value of an Optional[str]: None and "" are false.
Truthy(v) == v # None /\ v # ""

\* str(Path(s)): trailing slashes are dropped and the empty path is ".".
RECURSIVE StripTrailingSlashes(_)
StripTrailingSlashes(s) ==
    IF Len(s) > 1 /\ SubSeq(s, Len(s), Len(s)) = "/"
    THEN StripTrailingSlashes(SubSeq(s, 1, Len(s) - 1))
    ELSE s

Path(s) == IF s = "" THEN "." ELSE StripTrailingSlashes(s)

\* str(p / name) for a Path p and a file name
PathJoin(p, name) ==
    IF p = "." THEN name
    ELSE IF p = "/" THEN "/" \o name
    ELSE p \o "/" \o name

\* d[k] = v on an insertion-ordered dict: a key that is there keeps its place.
DictHas(d, k) == \E i \in 1..Len(d) : d[i][1] = k

DictGet(d, k) == d[CHOOSE i \in 1..Len(d) : d[i][1] = k][2]

DictSet(d, k, v) ==
    IF DictHas(d, k)
    THEN [i \in 1..Len(d) |-> IF d[i][1] = k THEN <<k, v>> ELSE d[i]]
    ELSE Append(d, <<k, v>>)

\* out.splitlines()[-1]: the last line of the output, for an output that has one
LastLine(lines) == lines[Len(lines)]

(***************************************************************************)
(* Platform-dependent names (main, lines 43-44, 55, 57).                   *)
(***************************************************************************)
exe_suffix == IF platform = "win32" THEN ".exe" ELSE ""

script_suffix == IF platform = "win32" THEN ".bat" ELSE ".sh"

vcpkg_exe == PathJoin(vcpkg_root, "vcpkg" \o exe_suffix)

bootstrap == PathJoin(vcpkg_root, "bootstrap-vcpkg" \o script_suffix)

(***************************************************************************)
(* Termination.                                                            *)
(***************************************************************************)
\* The statement fail() prints for the calling shell (lines 18-23).
ShellStatement == IF InEnviron("CI") THEN "exit 1" ELSE "return 1"

\* fail(msg), lines 10-24: the message on stderr, the statement on stdout, exit(1).
fail(msg) ==
    /\ stderr' = Append(stderr, msg)
    /\ stdout' = Append(stdout, ShellStatement)
    /\ exit_code' = 1
    /\ raised' = "SystemExit"
    /\ pc' = "exit"

\* An exception nobody catches: the interpreter prints the traceback on stderr
\* and exits with status 1; nothing is printed on stdout.
Uncaught(exc) ==
    /\ stderr' = Append(stderr, "Traceback (most recent call last): " \o exc)
    /\ stdout' = stdout
    /\ exit_code' = 1
    /\ raised' = exc
    /\ pc' = "exit"

\* One more external process in the log.
Called(argv, rc) ==
    calls' = Append(calls, [site |-> pc, argv |-> argv, cwd |-> vcpkg_root, rc |-> rc])

(***************************************************************************)
(* The messages of main() and the strings it builds.                       *)
(***************************************************************************)
RootMissingMessage ==
    "Please set 'VCPKG_ROOT' environment variable to vcpkg root directory"

BootstrapMissingMessage ==
    "VCPKG_ROOT (" \o vcpkg_root \o ") does not contain bootstrap script"

MonoMissingMessage == "Please install 'mono' .NET framework runtime"

UserMissingMessage == "Please set 'VCPKG_NUGET_USER' to your GitHub username"

\* A slip: the message of the token check copied from the username check.
TokenMissingMessage_NamesUser ==
    "Please set 'VCPKG_NUGET_USER' to your GitHub PAT with read/write package privileges"

TokenMissingMessage ==
    "Please set 'VCPKG_NUGET_TOKEN' to your GitHub PAT with read/write package privileges"

OwnerMissingMessage ==
    "Please specify 'VCPKG_PRIMARY_NUGET_OWNER' to the primary GitHub owner from which to download pre-built binaries"

SameFeedMessage ==
    "Not using primary NuGet feed because it is same as 'GitHub' feed."

\* A slip: the primary feed configured without the nugettimeout segment.
BinarySources_NoTimeout == "clear;nuget,GitHub,readwrite"

\* The value of VCPKG_BINARY_SOURCES for the primary feed (lines 83-85).
BinarySources == "clear;nuget,GitHub,readwrite;nugettimeout,3601"

\* The read-only feed appended to it (line 145).
WithReadFeed(sources, owner) == sources \o ";nuget," \o owner \o ",read"

\* The URL of an owner's feed (lines 87, 126).
FeedUrl(owner) == "https://nuget.pkg.github.com/" \o owner \o "/index.json"

\* The command lines of the NuGet client (lines 90-109, 128-141).
SourcesArgv(verb, url, name, username, password) ==
    nuget \o <<"sources", verb, "-source", url, "-storepasswordincleartext",
               "-name", name, "-username", username, "-password", password>>

SetApiKeyArgv(token, url) == nuget \o <<"setapikey", token, "-source", url>>

\* One line of print_export_variables (lines 34-37).
ExportLine(var, val) ==
    IF platform = "win32"
    THEN "$env:" \o var \o " = '" \o val \o "'"
    ELSE "export " \o var \o "='" \o val \o "'"

\* print_export_variables (lines 27-37): one line per entry, in the dict's order.
print_export_variables(d) == [i \in 1..Len(d) |-> ExportLine(d[i][1], d[i][2])]

(***************************************************************************)
(* The initial state: main() is about to run in some environment.          *)
(***************************************************************************)
Init ==
    /\ \E root \in EnvChoices("VCPKG_ROOT"),
          installation_root \in EnvChoices("VCPKG_INSTALLATION_ROOT"),
          ci \in EnvChoices("CI"),
          user \in EnvChoices("VCPKG_NUGET_USER"),
          token \in EnvChoices("VCPKG_NUGET_TOKEN"),
          ptoken \in EnvChoices("VCPKG_PRIMARY_NUGET_TOKEN"),
          powner \in EnvChoices("VCPKG_PRIMARY_NUGET_OWNER") :
          environ = MkEnviron([VCPKG_ROOT |-> root,
                               VCPKG_INSTALLATION_ROOT |-> installation_root,
                               CI |-> ci,
                               VCPKG_NUGET_USER |-> user,
                               VCPKG_NUGET_TOKEN |-> token,
                               VCPKG_PRIMARY_NUGET_TOKEN |-> ptoken,
                               VCPKG_PRIMARY_NUGET_OWNER |-> powner])
    /\ platform \in Platforms
    /\ mono_on_path \in BOOLEAN
    /\ exe_exists \in BOOLEAN
    /\ bootstrap_exists \in BOOLEAN
    /\ pc = "root"
    /\ export_env = <<>>
    /\ vcpkg_root = None
    /\ nuget = <<>>
    /\ nuget_user = None
    /\ nuget_token = None
    /\ primary_token = None
    /\ primary_owner = None
    /\ stdout = <<>>
    /\ stderr = <<>>
    /\ exit_code = 0
    /\ raised = ""
    /\ calls = <<>>
    /\ steps = <<>>

(***************************************************************************)
(* main(), step by step.                                                   *)
(***************************************************************************)
\* A slip: line 51 forgotten, the fallback is exported but the root directory
\* stays the one of line 46.
ResolveRoot_FallbackNotUsed ==
    /\ pc = "root"
    /\ steps' = Append(steps, pc)
    /\ IF InEnviron("VCPKG_ROOT")
       THEN /\ vcpkg_root' = Path(EnvironGet("VCPKG_ROOT", ""))
            /\ export_env' = export_env
            /\ pc' = "exe"
            /\ UNCHANGED outputs
       ELSE IF InEnviron("VCPKG_INSTALLATION_ROOT")
       THEN /\ export_env' = DictSet(export_env, "VCPKG_ROOT",
                                     EnvironGet("VCPKG_INSTALLATION_ROOT", None))
            /\ vcpkg_root' = Path(EnvironGet("VCPKG_ROOT", ""))
            /\ pc' = "exe"
            /\ UNCHANGED outputs
       ELSE /\ vcpkg_root' = Path(EnvironGet("VCPKG_ROOT", ""))
            /\ export_env' = export_env
            /\ fail(RootMissingMessage)
    /\ UNCHANGED <<inputs, exe_exists, nuget, nuget_user, nuget_token,
                   primary_token, primary_owner, calls>>

\* Lines 46-53: the root directory, from VCPKG_ROOT or VCPKG_INSTALLATION_ROOT.
ResolveRoot ==
    /\ pc = "root"
    /\ steps' = Append(steps, pc)
    /\ IF InEnviron("VCPKG_ROOT")
       THEN /\ vcpkg_root' = Path(EnvironGet("VCPKG_ROOT", ""))
            /\ export_env' = export_env
            /\ pc' = "exe"
            /\ UNCHANGED outputs
       ELSE IF InEnviron("VCPKG_INSTALLATION_ROOT")
       THEN /\ export_env' = DictSet(export_env, "VCPKG_ROOT",
                                     EnvironGet("VCPKG_INSTALLATION_ROOT", None))
            /\ vcpkg_root' = Path(DictGet(export_env', "VCPKG_ROOT"))
            /\ pc' = "exe"
            /\ UNCHANGED outputs
       ELSE /\ vcpkg_root' = Path(EnvironGet("VCPKG_ROOT", ""))
            /\ export_env' = export_env
            /\ fail(RootMissingMessage)
    /\ UNCHANGED <<inputs, exe_exists, nuget, nuget_user, nuget_token,
                   primary_token, primary_owner, calls>>

\* Lines 55-59: the executable is there, or the bootstrap script has to be.
CheckExecutable ==
    /\ pc = "exe"
    /\ steps' = Append(steps, pc)
    /\ IF exe_exists
       THEN pc' = "mono" /\ UNCHANGED outputs
       ELSE IF ~bootstrap_exists
       THEN fail(BootstrapMissingMessage)
       ELSE pc' = "bootstrap" /\ UNCHANGED outputs
    /\ UNCHANGED <<inputs, exe_exists, locals, calls>>

\* Line 60: subprocess.check_call([bootstrap]).  A script that succeeds may or
\* may not have produced the executable.
RunBootstrap ==
    /\ pc = "bootstrap"
    /\ steps' = Append(steps, pc)
    /\ \E rc \in ReturnCodes :
          /\ Called(<<bootstrap>>, rc)
          /\ IF rc # 0
             THEN Uncaught("CalledProcessError") /\ UNCHANGED exe_exists
             ELSE /\ exe_exists' \in BOOLEAN
                  /\ pc' = "mono"
                  /\ UNCHANGED outputs
    /\ UNCHANGED <<inputs, locals>>

\* A slip: the platform test the wrong way round.
NeedsMono_Inverted == platform = "win32"

\* Lines 63, 65: Windows does not need mono.
NeedsMono == platform # "win32"

\* Lines 62-67: mono is needed everywhere but on Windows.
CheckMono ==
    /\ pc = "mono"
    /\ steps' = Append(steps, pc)
    /\ IF NeedsMono /\ ~mono_on_path
       THEN fail(MonoMissingMessage) /\ UNCHANGED nuget
       ELSE IF NeedsMono
       THEN nuget' = nuget \o <<"mono">> /\ pc' = "fetch" /\ UNCHANGED outputs
       ELSE pc' = "fetch" /\ UNCHANGED <<nuget, outputs>>
    /\ UNCHANGED <<inputs, exe_exists, export_env, vcpkg_root, nuget_user,
                   nuget_token, primary_token, primary_owner, calls>>

\* Lines 69-72: subprocess.check_output([vcpkg_exe, "fetch", "nuget"]) and the
\* last line of what it prints.  An executable that is not there cannot be run.
FetchNuget ==
    /\ pc = "fetch"
    /\ steps' = Append(steps, pc)
    /\ IF ~exe_exists
       THEN Uncaught("FileNotFoundError") /\ UNCHANGED <<nuget, calls>>
       ELSE \E rc \in ReturnCodes :
               /\ Called(<<vcpkg_exe, "fetch", "nuget">>, rc)
               /\ IF rc # 0
                  THEN Uncaught("CalledProcessError") /\ UNCHANGED nuget
                  ELSE \E out \in FetchOutputs :
                          IF out = <<>>
                          THEN Uncaught("IndexError") /\ UNCHANGED nuget
                          ELSE /\ nuget' = nuget \o <<LastLine(out)>>
                               /\ pc' = "creds"
                               /\ UNCHANGED outputs
    /\ UNCHANGED <<inputs, exe_exists, export_env, vcpkg_root, nuget_user,
                   nuget_token, primary_token, primary_owner>>

\* Lines 74-87: the username and the token, then the export of the primary feed.
ValidateCredentials ==
    /\ pc = "creds"
    /\ steps' = Append(steps, pc)
    /\ nuget_user' = EnvironGet("VCPKG_NUGET_USER", None)
    /\ IF ~Truthy(nuget_user')
       THEN /\ fail(UserMissingMessage)
            /\ UNCHANGED <<nuget_token, export_env>>
       ELSE /\ nuget_token' = EnvironGet("VCPKG_NUGET_TOKEN", None)
            /\ IF ~Truthy(nuget_token')
               THEN fail(TokenMissingMessage) /\ UNCHANGED export_env
               ELSE /\ export_env' = DictSet(export_env, "VCPKG_BINARY_SOURCES",
                                             BinarySources)
                    /\ pc' = "add"
                    /\ UNCHANGED outputs
    /\ UNCHANGED <<inputs, exe_exists, vcpkg_root, nuget, primary_token,
                   primary_owner, calls>>

\* Lines 90-96: subprocess.run 'sources add'; its exit status is not looked at.
SourcesAdd ==
    /\ pc = "add"
    /\ steps' = Append(steps, pc)
    /\ \E rc \in ReturnCodes :
          Called(SourcesArgv("add", FeedUrl(nuget_user), "GitHub",
                             nuget_user, nuget_token), rc)
    /\ pc' = "update"
    /\ UNCHANGED <<inputs, exe_exists, locals, outputs>>

\* A slip: 'sources update' run with subprocess.run, like 'sources add'.
SourcesUpdate_ExitStatusIgnored ==
    /\ pc = "update"
    /\ steps' = Append(steps, pc)
    /\ \E rc \in ReturnCodes :
          Called(SourcesArgv("update", FeedUrl(nuget_user), "GitHub",
                             nuget_user, nuget_token), rc)
    /\ pc' = "setapikey"
    /\ UNCHANGED <<inputs, exe_exists, locals, outputs>>

\* Lines 97-103: subprocess.check_call 'sources update'.
SourcesUpdate ==
    /\ pc = "update"
    /\ steps' = Append(steps, pc)
    /\ \E rc \in ReturnCodes :
          /\ Called(SourcesArgv("update", FeedUrl(nuget_user), "GitHub",
                                nuget_user, nuget_token), rc)
          /\ IF rc # 0
             THEN Uncaught("CalledProcessError")
             ELSE pc' = "setapikey" /\ UNCHANGED outputs
    /\ UNCHANGED <<inputs, exe_exists, locals>>

\* Lines 105-109: subprocess.check_call 'setapikey'.
SetApiKey ==
    /\ pc = "setapikey"
    /\ steps' = Append(steps, pc)
    /\ \E rc \in ReturnCodes :
          /\ Called(SetApiKeyArgv(nuget_token, FeedUrl(nuget_user)), rc)
          /\ IF rc # 0
             THEN Uncaught("CalledProcessError")
             ELSE pc' = "secondary" /\ UNCHANGED outputs
    /\ UNCHANGED <<inputs, exe_exists, locals>>

\* A slip: file=sys.stderr forgotten, the message lands on stdout.
PrintToStderr_ToStdout(msg) ==
    /\ stdout' = Append(stdout, msg)
    /\ UNCHANGED <<stderr, exit_code, raised>>

\* Lines 121-124: print(msg, file=sys.stderr); the run goes on.
PrintToStderr(msg) ==
    /\ stderr' = Append(stderr, msg)
    /\ UNCHANGED <<stdout, exit_code, raised>>

\* A slip: the comparison of line 120 forgotten, the secondary feed always registered.
SameAsPrimaryFeed_Never(owner, user) == FALSE

\* Line 120: the secondary feed is left out when its owner is the username.
SameAsPrimaryFeed(owner, user) == owner = user

\* Lines 112-124: is there a secondary, read-only feed to register?
CheckSecondary ==
    /\ pc = "secondary"
    /\ steps' = Append(steps, pc)
    /\ primary_token' = EnvironGet("VCPKG_PRIMARY_NUGET_TOKEN", None)
    /\ IF Truthy(primary_token')
       THEN /\ primary_owner' = EnvironGet("VCPKG_PRIMARY_NUGET_OWNER", None)
            /\ IF ~Truthy(primary_owner')
               THEN fail(OwnerMissingMessage)
               ELSE IF SameAsPrimaryFeed(primary_owner', nuget_user)
               THEN /\ PrintToStderr(SameFeedMessage)
                    /\ pc' = "print"
               ELSE pc' = "sec_add" /\ UNCHANGED outputs
       ELSE /\ pc' = "print"
            /\ UNCHANGED <<primary_owner, outputs>>
    /\ UNCHANGED <<inputs, exe_exists, export_env, vcpkg_root, nuget,
                   nuget_user, nuget_token, calls>>

\* Lines 126-134: subprocess.run 'sources add' for the secondary feed.
SecondarySourcesAdd ==
    /\ pc = "sec_add"
    /\ steps' = Append(steps, pc)
    /\ \E rc \in ReturnCodes :
          Called(SourcesArgv("add", FeedUrl(primary_owner), primary_owner,
                             nuget_user, primary_token), rc)
    /\ pc' = "sec_update"
    /\ UNCHANGED <<inputs, exe_exists, locals, outputs>>

\* Lines 135-145: subprocess.check_call 'sources update' for the secondary
\* feed, then the read-only feed joins the export.
SecondarySourcesUpdate ==
    /\ pc = "sec_update"
    /\ steps' = Append(steps, pc)
    /\ \E rc \in ReturnCodes :
          /\ Called(SourcesArgv("update", FeedUrl(primary_owner), primary_owner,
                                nuget_user, primary_token), rc)
          /\ IF rc # 0
             THEN Uncaught("CalledProcessError") /\ UNCHANGED export_env
             ELSE /\ export_env' =
                        DictSet(export_env, "VCPKG_BINARY_SOURCES",
                                WithReadFeed(DictGet(export_env, "VCPKG_BINARY_SOURCES"),
                                             primary_owner))
                  /\ pc' = "print"
                  /\ UNCHANGED outputs
    /\ UNCHANGED <<inputs, exe_exists, vcpkg_root, nuget, nuget_user,
                   nuget_token, primary_token, primary_owner>>

\* Line 147 and the end of the script: the exports are printed, exit status 0.
PrintExports ==
    /\ pc = "print"
    /\ steps' = Append(steps, pc)
    /\ stdout' = stdout \o print_export_variables(export_env)
    /\ exit_code' = 0
    /\ pc' = "exit"
    /\ UNCHANGED <<inputs, exe_exists, locals, stderr, raised, calls>>

Next ==
    \/ ResolveRoot
    \/ CheckExecutable
    \/ RunBootstrap
    \/ CheckMono
    \/ FetchNuget
    \/ ValidateCredentials
    \/ SourcesAdd
    \/ SourcesUpdate
    \/ SetApiKey
    \/ CheckSecondary
    \/ SecondarySourcesAdd
    \/ SecondarySourcesUpdate
    \/ PrintExports

Spec == Init /\ [][Next]_vars

(***************************************************************************)
(* Vocabulary of the properties.                                           *)
(***************************************************************************)
Terminated == pc = "exit"

Succeeded == pc = "exit" /\ exit_code = 0

Failed == pc = "exit" /\ exit_code # 0

\* main() has executed the step at this position.
Executed(label) == \E i \in 1..Len(steps) : steps[i] = label

\* main() has executed the step at this position and has gone on after it.
Passed(label) ==
    \E i \in 1..Len(steps) : steps[i] = label /\ (i < Len(steps) \/ pc # "exit")

\* The external processes run from a call site, as indices of the log.
CallsAt(sites) == {i \in 1..Len(calls) : calls[i].site \in sites}

PrimarySites == {"add", "update", "setapikey"}

SecondarySites == {"sec_add", "sec_update"}

NugetSites == PrimarySites \cup SecondarySites

\* The argument that follows a flag on a command line.
ArgAfter(argv, flag) == argv[(CHOOSE i \in 1..Len(argv) : argv[i] = flag) + 1]

StartsWith(s, prefix) ==
    Len(s) >= Len(prefix) /\ SubSeq(s, 1, Len(prefix)) = prefix

\* The string holds the other one somewhere.
Contains(s, sub) ==
    \E i \in 1..(Len(s) - Len(sub) + 1) : SubSeq(s, i, i + Len(sub) - 1) = sub

\* The environment variables a message names.
NamedVariables(msg) == {k \in EnvNames : Contains(msg, k)}

\* s.split(sep) for a separator of one character
RECURSIVE SplitFrom(_, _, _, _, _)
SplitFrom(s, sep, i, start, acc) ==
    IF i > Len(s) THEN Append(acc, SubSeq(s, start, Len(s)))
    ELSE IF SubSeq(s, i, i) = sep
    THEN SplitFrom(s, sep, i + 1, i + 1, Append(acc, SubSeq(s, start, i - 1)))
    ELSE SplitFrom(s, sep, i + 1, start, acc)

Split(s, sep) == SplitFrom(s, sep, 1, 1, <<>>)

\* The feeds a value of VCPKG_BINARY_SOURCES names with a mode: the segments
\* "nuget,<feed>,<mode>" of the ";"-separated value.
FeedsWithMode(sources, mode) ==
    LET segments == Split(sources, ";")
        fields(i) == Split(segments[i], ",")
    IN  {fields(i)[2] : i \in {j \in 1..Len(segments) :
                                  /\ Len(fields(j)) = 3
                                  /\ fields(j)[1] = "nuget"
                                  /\ fields(j)[3] = mode}}

\* A line of standard output that sets a variable, in either shell's syntax.
IsExportLine(line) == StartsWith(line, "export ") \/ StartsWith(line, "$env:")

IsShellStatement(line) == line \in {"exit 1", "return 1"}

\* The run has ended with status non-zero and one message on stderr, which
\* names this variable and no other.
FailedNaming(var) ==
    /\ Failed
    /\ Len(stderr) = 1
    /\ NamedVariables(stderr[1]) = {var}

(***************************************************************************)
(* C1.  Every run of main() that does not succeed ends through fail(): one *)
(* message on stderr, exactly one shell statement on stdout ('exit 1' when *)
(* CI is in the environment, 'return 1' otherwise), exit status 1; no      *)
(* error leaves the program by another path.                               *)
(*                                                                         *)
(* The code does not do this: check_call and check_output raise            *)
(* CalledProcessError on a non-zero exit, nothing catches it, and the run  *)
(* ends with a traceback and an empty stdout.                              *)
(***************************************************************************)
C1_EveryFailureEndsThroughFail ==
    Failed =>
        /\ raised = "SystemExit"
        /\ exit_code = 1
        /\ Len(stderr) = 1
        /\ stdout = <<IF "CI" \in DOMAIN environ THEN "exit 1" ELSE "return 1">>

(***************************************************************************)
(* C2.  A required variable that is missing when the run reaches its check *)
(* ends the run with a non-zero status and a message on stderr that names  *)
(* exactly that variable: VCPKG_ROOT (with VCPKG_INSTALLATION_ROOT unset   *)
(* too), VCPKG_NUGET_USER and VCPKG_NUGET_TOKEN (unset or empty),          *)
(* VCPKG_PRIMARY_NUGET_OWNER (unset or empty while the secondary token is  *)
(* non-empty).                                                             *)
(***************************************************************************)
C2_MissingVariableIsNamed ==
    /\ ( /\ Executed("root")
         /\ ~InEnviron("VCPKG_ROOT")
         /\ ~InEnviron("VCPKG_INSTALLATION_ROOT") )
       => FailedNaming("VCPKG_ROOT")
    /\ ( /\ Executed("creds")
         /\ EnvironGet("VCPKG_NUGET_USER", "") = "" )
       => FailedNaming("VCPKG_NUGET_USER")
    /\ ( /\ Executed("creds")
         /\ EnvironGet("VCPKG_NUGET_USER", "") # ""
         /\ EnvironGet("VCPKG_NUGET_TOKEN", "") = "" )
       => FailedNaming("VCPKG_NUGET_TOKEN")
    /\ ( /\ Executed("secondary")
         /\ EnvironGet("VCPKG_PRIMARY_NUGET_TOKEN", "") # ""
         /\ EnvironGet("VCPKG_PRIMARY_NUGET_OWNER", "") = "" )
       => FailedNaming("VCPKG_PRIMARY_NUGET_OWNER")

\* The run got as far as the secondary feed and ended there for want of its owner.
C2_Witness ==
    /\ Executed("secondary")
    /\ EnvironGet("VCPKG_PRIMARY_NUGET_TOKEN", "") # ""
    /\ ~InEnviron("VCPKG_PRIMARY_NUGET_OWNER")
    /\ Failed
    /\ Len(calls) >= 4

(***************************************************************************)
(* C3.  Required variables, once validated, are non-empty strings: after   *)
(* the validation of the root directory (VCPKG_ROOT or the fallback        *)
(* VCPKG_INSTALLATION_ROOT), of the username, of the token and of the      *)
(* secondary owner, the value the run goes on with is non-empty; a         *)
(* variable that is set to the empty string never passes validation.       *)
(*                                                                         *)
(* The code checks the two root variables for presence only.               *)
(***************************************************************************)
C3_ValidatedVariablesNonEmpty ==
    /\ Passed("root") =>
          /\ InEnviron("VCPKG_ROOT") => environ["VCPKG_ROOT"] # ""
          /\ ~InEnviron("VCPKG_ROOT") => environ["VCPKG_INSTALLATION_ROOT"] # ""
          /\ DictHas(export_env, "VCPKG_ROOT") => DictGet(export_env, "VCPKG_ROOT") # ""
    /\ Passed("creds") =>
          /\ nuget_user \notin {None, ""}
          /\ nuget_token \notin {None, ""}
    /\ (Passed("secondary") /\ primary_token \notin {None, ""}) =>
          primary_owner \notin {None, ""}

(***************************************************************************)
(* C4.  End to end: a root directory whose vcpkg executable exists, a      *)
(* non-empty username and token, no secondary variables, CI unset, mono on *)
(* the search path where it is needed, every mandatory external command    *)
(* succeeding (exit status 0, and 'vcpkg fetch nuget' printing the path of *)
(* the client): the exit status is 0 and standard output is exactly the    *)
(* export lines, one setting VCPKG_BINARY_SOURCES to                       *)
(* 'clear;nuget,GitHub,readwrite;nugettimeout,3601', and one setting       *)
(* VCPKG_ROOT if and only if the root came from VCPKG_INSTALLATION_ROOT.   *)
(***************************************************************************)
MandatorySites == {"bootstrap", "fetch", "update", "setapikey", "sec_update"}

\* The line that sets a variable, in the syntax of the platform's shell.
C4_LineSetting(var, val) ==
    IF platform = "win32"
    THEN "$env:" \o var \o " = '" \o val \o "'"
    ELSE "export " \o var \o "='" \o val \o "'"

C4_Scenario ==
    /\ Terminated
    /\ InEnviron("VCPKG_ROOT") \/ InEnviron("VCPKG_INSTALLATION_ROOT")
    /\ exe_exists /\ ~Executed("bootstrap")
    /\ EnvironGet("VCPKG_NUGET_USER", "") # ""
    /\ EnvironGet("VCPKG_NUGET_TOKEN", "") # ""
    /\ ~InEnviron("VCPKG_PRIMARY_NUGET_TOKEN")
    /\ ~InEnviron("VCPKG_PRIMARY_NUGET_OWNER")
    /\ ~InEnviron("CI")
    /\ platform # "win32" => mono_on_path
    /\ \A i \in CallsAt(MandatorySites) : calls[i].rc = 0
    /\ raised # "IndexError"

C4_EndToEnd ==
    C4_Scenario =>
        /\ exit_code = 0
        /\ stdout =
              (IF InEnviron("VCPKG_ROOT") THEN <<>>
               ELSE <<C4_LineSetting("VCPKG_ROOT", environ["VCPKG_INSTALLATION_ROOT"])>>)
              \o <<C4_LineSetting("VCPKG_BINARY_SOURCES",
                                  "clear;nuget,GitHub,readwrite;nugettimeout,3601")>>

\* The scenario, with the root taken from the fallback.
C4_Witness ==
    /\ C4_Scenario
    /\ ~InEnviron("VCPKG_ROOT")
    /\ environ["VCPKG_INSTALLATION_ROOT"] = "/usr/local/share/vcpkg/"
    /\ Len(stdout) = 2
    /\ Len(calls) = 4

(***************************************************************************)
(* C5.  With VCPKG_ROOT not in the environment and VCPKG_INSTALLATION_ROOT *)
(* in it, the exported mapping holds VCPKG_ROOT with exactly the value of  *)
(* VCPKG_INSTALLATION_ROOT, that value (as a Path) is the root directory   *)
(* of the executable lookup and the working directory of every external    *)
(* command, and a successful run prints the VCPKG_ROOT line before the     *)
(* VCPKG_BINARY_SOURCES line.  With VCPKG_ROOT in the environment the      *)
(* exported mapping never holds VCPKG_ROOT.                                *)
(***************************************************************************)
SetsVariable(line, var) ==
    \/ StartsWith(line, "export " \o var \o "='")
    \/ StartsWith(line, "$env:" \o var \o " = '")

C5_FallbackRoot ==
    /\ ( /\ Executed("root")
         /\ ~InEnviron("VCPKG_ROOT")
         /\ InEnviron("VCPKG_INSTALLATION_ROOT") )
       => LET value == environ["VCPKG_INSTALLATION_ROOT"] IN
          /\ export_env[1] = <<"VCPKG_ROOT", value>>
          /\ \A i \in 2..Len(export_env) : export_env[i][1] # "VCPKG_ROOT"
          /\ vcpkg_root = Path(value)
          /\ \A i \in 1..Len(calls) : calls[i].cwd = Path(value)
          /\ \A i \in CallsAt({"fetch"}) :
                calls[i].argv[1] = PathJoin(Path(value), "vcpkg" \o exe_suffix)
          /\ \A i \in CallsAt({"bootstrap"}) :
                calls[i].argv[1] = PathJoin(Path(value), "bootstrap-vcpkg" \o script_suffix)
          /\ Succeeded =>
                \E i, j \in 1..Len(stdout) :
                    /\ i < j
                    /\ stdout[i] \in {"export VCPKG_ROOT='" \o value \o "'",
                                      "$env:VCPKG_ROOT = '" \o value \o "'"}
                    /\ SetsVariable(stdout[j], "VCPKG_BINARY_SOURCES")
                    /\ \A k \in 1..Len(stdout) :
                          SetsVariable(stdout[k], "VCPKG_ROOT") => k = i
    /\ InEnviron("VCPKG_ROOT") =>
          /\ ~DictHas(export_env, "VCPKG_ROOT")
          /\ \A k \in 1..Len(stdout) : ~SetsVariable(stdout[k], "VCPKG_ROOT")

\* A successful run on the fallback, whose value Path() changes, after a bootstrap.
C5_Witness ==
    /\ Succeeded
    /\ ~InEnviron("VCPKG_ROOT")
    /\ environ["VCPKG_INSTALLATION_ROOT"] = "/usr/local/share/vcpkg/"
    /\ CallsAt({"bootstrap"}) # {}
    /\ CallsAt({"sec_update"}) # {}

(***************************************************************************)
(* C6.  The secondary feed is registered ('sources add' and 'sources       *)
(* update' for the URL of VCPKG_PRIMARY_NUGET_OWNER) and ';nuget,<owner>,  *)
(* read' is appended to VCPKG_BINARY_SOURCES if and only if                *)
(* VCPKG_PRIMARY_NUGET_TOKEN and VCPKG_PRIMARY_NUGET_OWNER are non-empty   *)
(* and the owner differs from VCPKG_NUGET_USER: nothing of it happens      *)
(* unless the three hold, and a run that gets past the primary feed with   *)
(* the three holding does it all by the time it succeeds.  With the owner  *)
(* equal to the username nothing is registered and the run goes on; with   *)
(* the token set and the owner missing the run fails before any secondary  *)
(* command.                                                                *)
(***************************************************************************)
C6_SecondaryWanted ==
    /\ EnvironGet("VCPKG_PRIMARY_NUGET_TOKEN", "") # ""
    /\ EnvironGet("VCPKG_PRIMARY_NUGET_OWNER", "") # ""
    /\ EnvironGet("VCPKG_PRIMARY_NUGET_OWNER", "") # EnvironGet("VCPKG_NUGET_USER", "")

\* VCPKG_BINARY_SOURCES with the read-only feed of the owner appended.
C6_SourcesWithReadFeed ==
    "clear;nuget,GitHub,readwrite;nugettimeout,3601;nuget,"
        \o EnvironGet("VCPKG_PRIMARY_NUGET_OWNER", "") \o ",read"

\* The export holds something after the configuration of the primary feed.
C6_HasReadSegment ==
    /\ DictHas(export_env, "VCPKG_BINARY_SOURCES")
    /\ DictGet(export_env, "VCPKG_BINARY_SOURCES")
          # "clear;nuget,GitHub,readwrite;nugettimeout,3601"

C6_SecondaryIffWanted ==
    /\ CallsAt(SecondarySites) # {} => C6_SecondaryWanted
    /\ \A i \in CallsAt(SecondarySites) :
          /\ ArgAfter(calls[i].argv, "-source")
                = "https://nuget.pkg.github.com/"
                    \o environ["VCPKG_PRIMARY_NUGET_OWNER"] \o "/index.json"
          /\ ArgAfter(calls[i].argv, "sources")
                = (IF calls[i].site = "sec_add" THEN "add" ELSE "update")
    /\ C6_HasReadSegment =>
          /\ C6_SecondaryWanted
          /\ DictGet(export_env, "VCPKG_BINARY_SOURCES") = C6_SourcesWithReadFeed
          /\ \E i \in CallsAt({"sec_update"}) : calls[i].rc = 0
    /\ (C6_SecondaryWanted /\ Passed("secondary")) =>
          pc = "sec_add" \/ CallsAt({"sec_add"}) # {}
    /\ (C6_SecondaryWanted /\ Passed("sec_add")) =>
          pc = "sec_update" \/ CallsAt({"sec_update"}) # {}
    /\ (C6_SecondaryWanted /\ Succeeded) =>
          /\ CallsAt({"sec_add"}) # {}
          /\ CallsAt({"sec_update"}) # {}
          /\ C6_HasReadSegment
          /\ \E k \in 1..Len(stdout) :
                stdout[k] \in
                    {"export VCPKG_BINARY_SOURCES='" \o C6_SourcesWithReadFeed \o "'",
                     "$env:VCPKG_BINARY_SOURCES = '" \o C6_SourcesWithReadFeed \o "'"}
    /\ (~C6_SecondaryWanted /\ Succeeded) =>
          \E k \in 1..Len(stdout) :
                stdout[k] \in
                    {"export VCPKG_BINARY_SOURCES='clear;nuget,GitHub,readwrite;nugettimeout,3601'",
                     "$env:VCPKG_BINARY_SOURCES = 'clear;nuget,GitHub,readwrite;nugettimeout,3601'"}
    /\ ( /\ Executed("secondary")
         /\ EnvironGet("VCPKG_PRIMARY_NUGET_TOKEN", "") # ""
         /\ EnvironGet("VCPKG_PRIMARY_NUGET_OWNER", "") = EnvironGet("VCPKG_NUGET_USER", "") )
       => /\ CallsAt(SecondarySites) = {}
          /\ ~C6_HasReadSegment
          /\ pc = "print" \/ Succeeded
    /\ ( /\ Executed("secondary")
         /\ EnvironGet("VCPKG_PRIMARY_NUGET_TOKEN", "") # ""
         /\ EnvironGet("VCPKG_PRIMARY_NUGET_OWNER", "") = "" )
       => /\ Failed
          /\ CallsAt(SecondarySites) = {}

\* A successful run that registered the secondary feed.
C6_Witness ==
    /\ Succeeded
    /\ C6_SecondaryWanted
    /\ Cardinality(CallsAt(SecondarySites)) = 2
    /\ C6_HasReadSegment

(***************************************************************************)
(* C7.  Off Windows with no mono on the search path the run fails before   *)
(* 'vcpkg fetch nuget' is invoked, so before any NuGet-client command; off *)
(* Windows with mono, every invocation of the NuGet client starts with     *)
(* 'mono'; on Windows none does.                                           *)
(***************************************************************************)
C7_MonoBeforeFetch ==
    /\ (platform # "win32" /\ ~mono_on_path) =>
          /\ CallsAt({"fetch"} \cup NugetSites) = {}
          /\ ~Executed("fetch")
          /\ ~Succeeded
          /\ Executed("mono") =>
                /\ Failed
                /\ stderr = <<"Please install 'mono' .NET framework runtime">>
    /\ (platform # "win32" /\ mono_on_path) =>
          \A i \in CallsAt(NugetSites) :
              /\ calls[i].argv[1] = "mono"
              /\ calls[i].argv[2] \in FetchLineValues
              /\ calls[i].argv[3] \in {"sources", "setapikey"}
    /\ platform = "win32" =>
          \A i \in CallsAt(NugetSites) :
              /\ \A k \in 1..Len(calls[i].argv) : calls[i].argv[k] # "mono"
              /\ calls[i].argv[1] \in FetchLineValues
              /\ calls[i].argv[2] \in {"sources", "setapikey"}

\* Off Windows, with mono: a run that made all five invocations of the client.
C7_Witness ==
    /\ platform # "win32"
    /\ mono_on_path
    /\ Cardinality(CallsAt(NugetSites)) = 5
    /\ Succeeded

(***************************************************************************)
(* C8.  The primary feed: the NuGet client is invoked in the order         *)
(* 'sources add', 'sources update', 'setapikey', and only after            *)
(* VCPKG_NUGET_USER and VCPKG_NUGET_TOKEN were found non-empty.  A         *)
(* non-zero exit of 'sources add' is ignored: 'sources update' follows and *)
(* the run can still succeed.  A non-zero exit of 'sources update' is      *)
(* fatal: no 'setapikey' follows, the run does not succeed.  A non-zero    *)
(* exit of 'setapikey' is fatal: no secondary registration and no export   *)
(* line follows.  No external command is retried.                          *)
(***************************************************************************)
C8_IsPrimary(c) == c.site \in PrimarySites

C8_PrimarySequence ==
    LET primary == SelectSeq(calls, C8_IsPrimary)
    IN  [i \in 1..Len(primary) |->
            IF primary[i].site = "setapikey" THEN "setapikey"
            ELSE ArgAfter(primary[i].argv, "sources")]

C8_PrimaryFeedOrder ==
    /\ C8_PrimarySequence
          \in {<<>>, <<"add">>, <<"add", "update">>, <<"add", "update", "setapikey">>}
    /\ \A i \in CallsAt({"setapikey"}) : \E k \in 1..2 : calls[i].argv[k + 1] = "setapikey"
    /\ CallsAt(PrimarySites) # {} =>
          /\ EnvironGet("VCPKG_NUGET_USER", "") # ""
          /\ EnvironGet("VCPKG_NUGET_TOKEN", "") # ""
          /\ Passed("creds")
    /\ \A i \in CallsAt({"add", "update"}) :
          /\ ArgAfter(calls[i].argv, "-username") = environ["VCPKG_NUGET_USER"]
          /\ ArgAfter(calls[i].argv, "-password") = environ["VCPKG_NUGET_TOKEN"]
          /\ ArgAfter(calls[i].argv, "-name") = "GitHub"
    /\ \A i \in CallsAt({"add"}) :
          calls[i].rc # 0 => pc = "update" \/ CallsAt({"update"}) # {}
    /\ \A i \in CallsAt({"update"}) :
          calls[i].rc # 0 =>
              /\ Failed
              /\ CallsAt({"setapikey"}) = {}
    /\ \A i \in CallsAt({"setapikey"}) :
          calls[i].rc # 0 =>
              /\ Failed
              /\ ~Executed("secondary")
              /\ CallsAt(SecondarySites) = {}
              /\ \A k \in 1..Len(stdout) : ~IsExportLine(stdout[k])
    /\ \A i, j \in 1..Len(calls) : calls[i].site = calls[j].site => i = j

\* 'sources add' failed, and the run succeeded all the same.
C8_Witness ==
    /\ Succeeded
    /\ \E i \in CallsAt({"add"}) : calls[i].rc # 0
    /\ C8_PrimarySequence = <<"add", "update", "setapikey">>

(***************************************************************************)
(* C9.  The exports are written to standard output exactly once per        *)
(* successful run, as the last action, after every external command; a run *)
(* that fails, at whatever step, writes no export line at all, so standard *)
(* output never holds both an export line and an 'exit 1' or 'return 1'.   *)
(***************************************************************************)
C9_ExportsOnceAtTheEnd ==
    /\ ~Terminated => stdout = <<>>
    /\ Failed => \A k \in 1..Len(stdout) : ~IsExportLine(stdout[k])
    /\ Succeeded =>
          /\ steps[Len(steps)] = "print"
          /\ Len(stdout) = Len(export_env)
          /\ Len(stdout) >= 1
          /\ \A k \in 1..Len(stdout) :
                /\ IsExportLine(stdout[k])
                /\ SetsVariable(stdout[k], export_env[k][1])
          /\ \A j, k \in 1..Len(export_env) :
                export_env[j][1] = export_env[k][1] => j = k
    /\ ~ ( /\ \E k \in 1..Len(stdout) : IsExportLine(stdout[k])
           /\ \E k \in 1..Len(stdout) : IsShellStatement(stdout[k]) )

\* A successful run that skipped the secondary feed, its owner being the
\* username, and printed its exports after the message about it.
C9_Witness ==
    /\ Succeeded
    /\ stderr # <<>>
    /\ Len(stdout) = 2
    /\ Len(calls) = 5

(***************************************************************************)
(* C10.  Duplicate feed names are avoided: the secondary feed is never     *)
(* registered with the NuGet client under the name of the primary feed,    *)
(* 'GitHub', and VCPKG_BINARY_SOURCES never names the same feed in its     *)
(* readwrite segment and in its read segment.                              *)
(*                                                                         *)
(* The code compares the secondary owner with the username, not with the   *)
(* name of the primary feed: an owner called GitHub is registered under    *)
(* the name GitHub.                                                        *)
(***************************************************************************)
C10_NoDuplicateFeedName ==
    /\ \A i \in CallsAt(SecondarySites) : ArgAfter(calls[i].argv, "-name") # "GitHub"
    /\ DictHas(export_env, "VCPKG_BINARY_SOURCES") =>
          FeedsWithMode(DictGet(export_env, "VCPKG_BINARY_SOURCES"), "readwrite")
             \cap FeedsWithMode(DictGet(export_env, "VCPKG_BINARY_SOURCES"), "read") = {}

====
